---- MODULE Spec2Model ----
(***************************************************************************)
(* Model of irrevolutions/practice/discrete_atk_homogeneous.py:            *)
(*   - _AlternateMinimisation.solve(), the staggered elastic/damage loop,  *)
(*   - discrete_atk(), the load-stepping driver of the homogeneous chain.  *)
(* Real numbers are exact rationals [n, d] in lowest terms with d > 0.     *)
(* A non-negative square root sqrt(q) is carried as its radicand q.        *)
(***************************************************************************)
EXTENDS Integers, Sequences, FiniteSets, TLC

(***************************************************************************)
(* Exact rational arithmetic.                                              *)
(***************************************************************************)
Abs(x) == IF x < 0 THEN -x ELSE x

RECURSIVE GCD(_, _)
GCD(a, b) == IF b = 0 THEN a ELSE GCD(b, a % b)

Rat(n, d) ==
    LET s == IF d < 0 THEN -1 ELSE 1
        g == GCD(Abs(n), Abs(d))
    IN  [n |-> (s * n) \div g, d |-> (s * d) \div g]

RInt(i) == [n |-> i, d |-> 1]
RAdd(a, b) == Rat(a.n * b.d + b.n * a.d, a.d * b.d)
RSub(a, b) == Rat(a.n * b.d - b.n * a.d, a.d * b.d)
RMul(a, b) == Rat(a.n * b.n, a.d * b.d)
RDiv(a, b) == Rat(a.n * b.d, a.d * b.n)
RLeq(a, b) == a.n * b.d <= b.n * a.d
RLt(a, b) == a.n * b.d < b.n * a.d

RECURSIVE RSum(_, _, _)
RSum(f, lo, hi) == IF lo > hi THEN RInt(0) ELSE RAdd(f[lo], RSum(f, lo + 1, hi))

RECURSIVE ISqrtUp(_, _)
ISqrtUp(x, r) == IF (r + 1) * (r + 1) > x THEN r ELSE ISqrtUp(x, r + 1)

\* np.sqrt on a non-negative rational: exact on perfect squares, rounded
\* down on numerator and denominator otherwise.
RSqrt(q) == Rat(ISqrtUp(q.n, 0), ISqrtUp(q.d, 0))

Zero == RInt(0)
One == RInt(1)
Half == Rat(1, 2)

(***************************************************************************)
(* Model parameters fixed by discrete_atk() and the discretisation.        *)
(***************************************************************************)
mu == 1
w1 == 2
k == 4
N == 2

\* Bound on parameters["loading"]["steps"] (the script sets 30).
MaxSteps == 3

Cells == 0 .. (N - 1)
Nodes == 0 .. N

\* parameters["loading"]["min"] is read from parameters.yml; max is k.
LoadingMins == {Zero, Half, One}
loading_max == RInt(k)

\* np.linspace(min, max, steps)[j]
linspace(lo, hi, num, j) ==
    IF num = 1 THEN lo
    ELSE RAdd(lo, RMul(RInt(j), RDiv(RSub(hi, lo), RInt(num - 1))))

ZeroCells == [c \in Cells |-> Zero]
OneCells == [c \in Cells |-> One]
ZeroNodes == [i \in Nodes |-> Zero]

\* a_atk(alpha) = (1 - alpha) / ((k - 1) alpha + 1)
a_atk(al) == RDiv(RSub(One, al), RAdd(RMul(RInt(k - 1), al), One))

\* w(alpha) = alpha
w(al) == al

\* grad(u) on cell c of the unit interval split in N cells
grad_u(uu, c) == RMul(RInt(N), RSub(uu[c + 1], uu[c]))

\* mu / 2 * a_atk(alpha) * inner(eps, eps), cell by cell
elastic_energy_density_atk(uu, al) ==
    [c \in Cells |->
        RMul(RMul(Rat(mu, 2), a_atk(al[c])),
             RMul(grad_u(uu, c), grad_u(uu, c)))]

\* w1 * w(alpha) + w1 * ell^2 * |grad alpha|^2; alpha is piecewise constant
\* (DG0), so its gradient vanishes inside every cell.
damage_energy_density(uu, al) == [c \in Cells |-> RMul(RInt(w1), w(al[c]))]

\* mu * a_atk(alpha) * u.dx(), cell by cell
stress(uu, al) ==
    [c \in Cells |-> RMul(RMul(RInt(mu), a_atk(al[c])), grad_u(uu, c))]

\* assemble_scalar(form(f * dx)) for a cellwise constant density f
assemble_scalar(f) == RSum([c \in Cells |-> RMul(Rat(1, N), f[c])], 0, N - 1)

\* variant: the division by 4 under the root is dropped
_critical_load_undivided == RSqrt(Rat(8 * w1, mu * k))

\* sqrt(8 * w1 / (mu * k) / 4)
_critical_load == RSqrt(RDiv(Rat(8 * w1, mu * k), RInt(4)))

\* variant: the damaging branch forgets the "- 1"
_homogeneous_state_no_offset(t) ==
    LET _tc == _critical_load
    IN  IF RLeq(t, _tc)
        THEN [alpha |-> [c \in Cells |-> Zero],
              u |-> [i \in Nodes |-> RDiv(RMul(RInt(i), t), RInt(N))]]
        ELSE LET al == RDiv(RDiv(t, _tc), RInt(k - 1))
                 e == RDiv(t, RInt(N))
             IN  [alpha |-> [c \in Cells |-> al],
                  u |-> [i \in Nodes |-> RMul(e, RInt(i))]]

\* variant: the damaging branch takes the complement of the damage
_homogeneous_state_complement(t) ==
    LET _tc == _critical_load
    IN  IF RLeq(t, _tc)
        THEN [alpha |-> [c \in Cells |-> Zero],
              u |-> [i \in Nodes |-> RDiv(RMul(RInt(i), t), RInt(N))]]
        ELSE LET al == RSub(One, RDiv(RSub(RDiv(t, _tc), One), RInt(k - 1)))
                 e == RDiv(t, RInt(N))
             IN  [alpha |-> [c \in Cells |-> al],
                  u |-> [i \in Nodes |-> RMul(e, RInt(i))]]

_homogeneous_state(t) ==
    LET _tc == _critical_load
    IN  IF RLeq(t, _tc)
        THEN [alpha |-> [c \in Cells |-> Zero],
              u |-> [i \in Nodes |-> RDiv(RMul(RInt(i), t), RInt(N))]]
        ELSE LET al == RDiv(RSub(RDiv(t, _tc), One), RInt(k - 1))
                 e == RDiv(t, RInt(N))
             IN  [alpha |-> [c \in Cells |-> al],
                  u |-> [i \in Nodes |-> RMul(e, RInt(i))]]

(***************************************************************************)
(* State.                                                                  *)
(***************************************************************************)
VARIABLES
    \* state = {"u": u, "alpha": alpha} and the bounds
    u, alpha, alpha_lb, alpha_ub,
    \* the fields written in place and not ghost-updated since
    stale,
    \* discrete_atk(): configuration, loop position and locals
    pc, loading_min, loading_steps, i_t, t,
    \* MPI.COMM_WORLD: number of processes, the process owning each cell
    comm_size, owner,
    is_stable, is_elastic, inertia, stable,
    fracture_energy, elastic_energy, _F,
    \* the oracles' retained results (stability.data, cone.data)
    stability_data, cone_data,
    \* results: history_data, check_stability, time_data.json, the XDMF file
    history_data, check_stability, time_data, xdmf,
    \* per process: holds time_data.json open for writing, number of
    \* completed writes of it, collective operations entered so far
    file_writers, writes, collectives,
    \* the process was killed (no statement runs afterwards)
    crashed,
    \* observation: the operations performed so far, <<load index, operation>>
    oplog,
    \* _AlternateMinimisation: solver_parameters["damage_elasticity"]
    criterion, alpha_rtol, max_it,
    \* _AlternateMinimisation: self.alpha_old, self.data, position in solve()
    alpha_old, data, am_pc,
    \* solve(): locals (iteration is <<>> while the name is unbound)
    alpha_diff, range_next, iteration,
    \* observation: alpha when the damage solve of the iteration began, and
    \* the statements of solve() executed so far, <<iteration, statement>>
    alpha_start, am_oplog,
    solver_u_it, solver_u_reason, solver_alpha_it, solver_alpha_reason,
    error_alpha_H1, error_alpha_L2, Fnorm, error_alpha_max,
    total_energy_int, error_residual_F,
    \* the exception solve() ended with, if any
    raised

fields == <<u, alpha, alpha_lb, alpha_ub, stale>>
config == <<loading_min, loading_steps, comm_size, owner>>
mpi_state == <<file_writers, writes, collectives>>
oracle_locals == <<is_stable, is_elastic, inertia, stable, stability_data, cone_data>>
energy_locals == <<fracture_energy, elastic_energy, _F>>
outputs == <<history_data, check_stability, time_data, xdmf>>
driver_vars == <<pc, config, i_t, t, oracle_locals, energy_locals, outputs,
                 mpi_state, crashed, oplog>>
am_config == <<criterion, alpha_rtol, max_it>>
am_subsolves == <<solver_u_it, solver_u_reason, solver_alpha_it, solver_alpha_reason>>
am_errors == <<error_alpha_H1, error_alpha_L2, Fnorm, error_alpha_max,
               total_energy_int, error_residual_F>>
am_vars == <<am_config, alpha_old, data, am_pc, alpha_diff, range_next,
             iteration, alpha_start, am_oplog, am_subsolves, am_errors, raised>>
vars == <<fields, driver_vars, am_vars>>

Columns == {"load", "elastic_energy", "fracture_energy", "total_energy",
            "cone_data", "eigs", "cone-stable", "non-bifurcation", "F",
            "alpha_t", "u_t"}

\* BifurcationSolver.solve(alpha_lb): verdict, eigenvalues, inertia
StabilityOutcomes ==
    {[stable |-> TRUE, eigs |-> <<1>>, inertia |-> <<0, 0, 1>>],
     [stable |-> FALSE, eigs |-> <<-1>>, inertia |-> <<1, 0, 0>>]}

\* StabilitySolver.my_solve(alpha_lb): verdict and the data it retains
ConeOutcomes ==
    {[stable |-> TRUE, data |-> [lambda_0 |-> 1]],
     [stable |-> FALSE, data |-> [lambda_0 |-> -1]]}

\* BifurcationSolver.is_elastic(): the damage field vanishes everywhere
stability_is_elastic(al) == \A c \in Cells : al[c] = Zero

\* the function "Unknown" that line 300 binds to the name u: never written
u_Unknown == ZeroNodes

loads(j) == linspace(loading_min, loading_max, loading_steps, j)

\* Bound on the number of processes of MPI.COMM_WORLD.
MaxRanks == 2

Ranks == 0 .. (comm_size - 1)

\* assemble_scalar(form(f * dx)) on process r: the cells r owns
assemble_scalar_local(f, r) ==
    RSum([c \in Cells |-> IF owner[c] = r THEN RMul(Rat(1, N), f[c]) ELSE Zero],
         0, N - 1)

\* comm.allreduce(x, op=MPI.SUM) for the per-process values x[r]
allreduce_sum(x) == RSum(x, 0, comm_size - 1)

\* variant: the write of time_data.json is not guarded by the rank
WritesHistoryEveryRank(r) == r \in Ranks

\* if comm.rank == 0: the processes that write time_data.json
WritesHistory(r) == r = 0

\* the collective operations process r enters in lines 510-517
EnergyCollectives(r) == <<"allreduce fracture_energy", "allreduce elastic_energy">>

\* the collective operations process r enters in lines 536-540
XDMFCollectives(r) == <<"XDMFFile", "write_function u", "write_function alpha">>

\* variant: the cone oracle is called before the bifurcation oracle
NextPcConeFirst(p) ==
    CASE p = "homogeneous" -> "cone"
      [] p = "cone" -> "stability"
      [] p = "stability" -> "plots"
      [] p = "plots" -> "energies"
      [] p = "energies" -> "append"
      [] p = "append" -> "xdmf"
      [] p = "xdmf" -> "open"
      [] p = "open" -> "dump"
      [] p = "dump" -> "close"
      [] p = "close" -> "loop"

\* statement order of the body of the load loop
NextPc(p) ==
    CASE p = "homogeneous" -> "stability"
      [] p = "stability" -> "cone"
      [] p = "cone" -> "plots"
      [] p = "plots" -> "energies"
      [] p = "energies" -> "append"
      [] p = "append" -> "xdmf"
      [] p = "xdmf" -> "open"
      [] p = "open" -> "dump"
      [] p = "dump" -> "close"
      [] p = "close" -> "loop"

Step(p, op) ==
    /\ ~crashed
    /\ pc = p
    /\ pc' = NextPc(p)
    /\ oplog' = Append(oplog, <<i_t, op>>)
    /\ UNCHANGED am_vars

(***************************************************************************)
(* _AlternateMinimisation                                                  *)
(***************************************************************************)
\* Bound on solver_parameters["damage_elasticity"]["max_it"].
MaxIt == 2

Criteria == {"residual_u", "alpha_H1", "other"}
AlphaRtols == {Zero, Rat(3, 4)}

\* values a sub-solver can leave in a cell / at an interior node
AlphaLevels == {Zero, One}
ULevels == {Half, One}

\* (iterations, converged reason) returned by SNESSolver.solve()
SolverOutcomes == {<<1, 2>>, <<5, -5>>}

\* the square root of q, carried as its radicand
Root(q) == [sq |-> q]

\* root <= tol for a root carried as its radicand
RootLeq(r, tol) == RLeq(Zero, tol) /\ RLeq(r.sq, RMul(tol, tol))

\* the Dirichlet value of bc_u_right: u_ interpolates the constant 1
u_Boundary == One

\* SNESSolver(energy_u, u, bcs_u).solve(): u afterwards
ElasticitySolutions ==
    {uu \in [Nodes -> ULevels \cup {Zero, u_Boundary}] :
        /\ uu[0] = Zero
        /\ uu[N] = u_Boundary
        /\ \A i \in 1 .. (N - 1) : uu[i] \in ULevels}

\* SNESSolver(energy_alpha, alpha, bounds=(alpha_lb, alpha_ub)).solve()
DamageSolutions ==
    {al \in [Cells -> AlphaLevels] :
        \A c \in Cells : RLeq(alpha_lb[c], al[c]) /\ RLeq(al[c], alpha_ub[c])}

\* norm_L2(v) = sqrt(assemble(inner(v, v) * dx))
norm_L2(v) == Root(assemble_scalar([c \in Cells |-> RMul(v[c], v[c])]))

\* norm_H1(v) = sqrt(assemble((inner(v, v) + inner(grad v, grad v)) * dx));
\* v is piecewise constant, its gradient vanishes inside every cell
norm_H1(v) == Root(assemble_scalar([c \in Cells |-> RAdd(RMul(v[c], v[c]), Zero)]))

\* Vec.max()[1]
RECURSIVE VecMax(_, _)
VecMax(v, hi) ==
    IF hi = 0 THEN v[0]
    ELSE LET m == VecMax(v, hi - 1) IN IF RLt(m, v[hi]) THEN v[hi] ELSE m

\* d a_atk / d alpha = -k / ((k - 1) alpha + 1)^2
da_atk(al) ==
    LET den == RAdd(RMul(RInt(k - 1), al), One)
    IN  RDiv(RInt(-k), RMul(den, den))

\* assemble_vector(form(energy_u)): derivative of the energy at node i
assemble_energy_u(uu, al) ==
    LET sigma == stress(uu, al)
    IN  [i \in Nodes |->
            RSub(IF i = 0 THEN Zero ELSE sigma[i - 1],
                 IF i = N THEN Zero ELSE sigma[i])]

\* assemble_vector(form(energy_alpha)): derivative of the energy in cell c
assemble_energy_alpha(uu, al) ==
    [c \in Cells |->
        RMul(Rat(1, N),
             RAdd(RMul(RMul(Rat(mu, 2), da_atk(al[c])),
                       RMul(grad_u(uu, c), grad_u(uu, c))),
                  RInt(w1)))]

\* Vec.dot(Vec) over an index range lo..hi
Dot(v, lo, hi) == RSum([i \in lo .. hi |-> RMul(v[i], v[i])], lo, hi)

\* assemble_scalar(form(self.total_energy))
total_energy(uu, al) ==
    RAdd(assemble_scalar(elastic_energy_density_atk(uu, al)),
         assemble_scalar(damage_energy_density(uu, al)))

\* residual_F after set_bc(residual_F, bcs, u): boundary rows hold g - u
residual_with_bc(uu, al) ==
    LET r == assemble_energy_u(uu, al)
    IN  [i \in Nodes |->
            IF i = 0 THEN RSub(Zero, uu[0])
            ELSE IF i = N THEN RSub(u_Boundary, uu[N])
            ELSE r[i]]

DataColumns == {"iteration", "error_alpha_L2", "error_alpha_H1", "F_norm",
                "error_alpha_max", "error_residual_F", "solver_alpha_reason",
                "solver_alpha_it", "solver_u_reason", "solver_u_it",
                "total_energy"}

\* statement order of the body of the loop of solve()
\* variant: the norms are computed before the increment is ghost-updated
AMNextPcNormsFirst(p) ==
    CASE p = "elastic" -> "damage"
      [] p = "damage" -> "increment"
      [] p = "increment" -> "errors"
      [] p = "errors" -> "ghost"
      [] p = "ghost" -> "alpha_old"
      [] p = "alpha_old" -> "record"
      [] p = "record" -> "test"

AMNextPc(p) ==
    CASE p = "elastic" -> "damage"
      [] p = "damage" -> "increment"
      [] p = "increment" -> "ghost"
      [] p = "ghost" -> "errors"
      [] p = "errors" -> "alpha_old"
      [] p = "alpha_old" -> "record"
      [] p = "record" -> "test"

AMStep(p) ==
    /\ am_pc = p
    /\ am_pc' = AMNextPc(p)
    /\ am_oplog' = Append(am_oplog, <<iteration[1], p>>)
    /\ UNCHANGED <<alpha_lb, alpha_ub, driver_vars, am_config, raised>>

\* the state of the solver object after __init__ and before solve()
Constructed ==
    /\ alpha_old = ZeroCells
    /\ data = "unset"
    /\ am_pc = "constructed"
    /\ alpha_diff = "unbound"
    /\ range_next = 0
    /\ iteration = <<>>
    /\ alpha_start = ZeroCells
    /\ am_oplog = <<>>
    /\ solver_u_it = "unbound"
    /\ solver_u_reason = "unbound"
    /\ solver_alpha_it = "unbound"
    /\ solver_alpha_reason = "unbound"
    /\ error_alpha_H1 = "unbound"
    /\ error_alpha_L2 = "unbound"
    /\ Fnorm = "unbound"
    /\ error_alpha_max = "unbound"
    /\ total_energy_int = "unbound"
    /\ error_residual_F = "unbound"
    /\ raised = "none"

\* lines 96-110
SolveBegin ==
    /\ pc = "solve"
    /\ am_pc = "constructed"
    /\ am_pc' = "for"
    /\ alpha_diff' = ZeroCells
    /\ data' = [col \in DataColumns |-> <<>>]
    /\ range_next' = 0
    /\ UNCHANGED <<fields, driver_vars, am_config, alpha_start, am_oplog,
                   alpha_old, iteration,
                   am_subsolves, am_errors, raised>>

\* for iteration in range(max_it): next index
ForNext ==
    /\ am_pc = "for"
    /\ range_next < max_it
    /\ iteration' = <<range_next>>
    /\ range_next' = range_next + 1
    /\ am_pc' = "elastic"
    /\ UNCHANGED <<fields, driver_vars, am_config, alpha_start, am_oplog,
                   alpha_old, data, alpha_diff,
                   am_subsolves, am_errors, raised>>

\* for iteration in range(max_it): exhausted, the else clause runs
ForExhausted ==
    /\ am_pc = "for"
    /\ ~(range_next < max_it)
    /\ am_pc' = "else"
    /\ UNCHANGED <<fields, driver_vars, am_config, alpha_start, am_oplog,
                   alpha_old, data, alpha_diff,
                   range_next, iteration, am_subsolves, am_errors, raised>>

ElasticSolve ==
    /\ AMStep("elastic")
    /\ u' \in ElasticitySolutions
    /\ \E o \in SolverOutcomes :
        /\ solver_u_it' = o[1]
        /\ solver_u_reason' = o[2]
    /\ stale' = stale \ {"u"}
    /\ UNCHANGED <<alpha, alpha_old, data, alpha_diff, range_next, iteration,
                   alpha_start, solver_alpha_it, solver_alpha_reason, am_errors>>

DamageSolve ==
    /\ AMStep("damage")
    /\ alpha' \in DamageSolutions
    /\ \E o \in SolverOutcomes :
        /\ solver_alpha_it' = o[1]
        /\ solver_alpha_reason' = o[2]
    /\ alpha_start' = alpha
    /\ stale' = stale \ {"alpha"}
    /\ UNCHANGED <<u, alpha_old, data, alpha_diff, range_next, iteration,
                   solver_u_it, solver_u_reason, am_errors>>

\* alpha.copy(alpha_diff); alpha_diff.axpy(-1, alpha_old)
ComputeIncrement ==
    /\ AMStep("increment")
    /\ alpha_diff' = [c \in Cells |-> RSub(alpha[c], alpha_old[c])]
    /\ stale' = stale \cup {"alpha_diff"}
    /\ UNCHANGED <<u, alpha, alpha_old, data, range_next, iteration,
                   alpha_start, am_subsolves, am_errors>>

\* alpha_diff.ghostUpdate(INSERT, FORWARD): owned values are not changed
GhostUpdateIncrement ==
    /\ AMStep("ghost")
    /\ stale' = stale \ {"alpha_diff"}
    /\ UNCHANGED <<u, alpha, alpha_old, data, alpha_diff, range_next,
                   iteration, alpha_start, am_subsolves, am_errors>>

\* lines 126-144
ComputeErrors ==
    /\ AMStep("errors")
    /\ error_alpha_H1' = norm_H1(alpha_diff)
    /\ error_alpha_L2' = norm_L2(alpha_diff)
    /\ Fnorm' = [roots |-> <<Dot(assemble_energy_u(u, alpha), 0, N),
                             Dot(assemble_energy_alpha(u, alpha), 0, N - 1)>>]
    /\ error_alpha_max' = VecMax(alpha_diff, N - 1)
    /\ total_energy_int' = total_energy(u, alpha)
    /\ error_residual_F' = Root(Dot(residual_with_bc(u, alpha), 0, N))
    /\ UNCHANGED <<u, alpha, stale, alpha_old, data, alpha_diff, range_next,
                   iteration, alpha_start, am_subsolves>>

\* alpha.copy(alpha_old); alpha_old.ghostUpdate(INSERT, FORWARD)
UpdateAlphaOld ==
    /\ AMStep("alpha_old")
    /\ alpha_old' = alpha
    /\ stale' = stale \ {"alpha_old"}
    /\ UNCHANGED <<u, alpha, data, alpha_diff, range_next, iteration,
                   alpha_start, am_subsolves, am_errors>>

\* self.data[...].append(...), lines 167-177
IterationRecord ==
    [col \in DataColumns |->
        CASE col = "iteration" -> iteration[1]
          [] col = "error_alpha_L2" -> error_alpha_L2
          [] col = "error_alpha_H1" -> error_alpha_H1
          [] col = "F_norm" -> Fnorm
          [] col = "error_alpha_max" -> error_alpha_max
          [] col = "error_residual_F" -> error_residual_F
          [] col = "solver_alpha_it" -> solver_alpha_it
          [] col = "solver_alpha_reason" -> solver_alpha_reason
          [] col = "solver_u_reason" -> solver_u_reason
          [] col = "solver_u_it" -> solver_u_it
          [] col = "total_energy" -> total_energy_int]

RecordIteration ==
    /\ AMStep("record")
    /\ data' = [col \in DataColumns |-> Append(data[col], IterationRecord[col])]
    /\ UNCHANGED <<u, alpha, stale, alpha_old, alpha_diff, range_next,
                   iteration, alpha_start, am_subsolves, am_errors>>

\* variant: the loop is left only when both metrics meet the tolerance
StopCriterionMetBoth ==
    /\ criterion \in {"residual_u", "alpha_H1"}
    /\ RootLeq(error_residual_F, alpha_rtol)
    /\ RootLeq(error_alpha_H1, alpha_rtol)

\* variant: the loop is left only when both sub-solvers report convergence
StopCriterionMetConverged ==
    /\ solver_u_reason > 0
    /\ solver_alpha_reason > 0
    /\ \/ /\ criterion = "residual_u"
          /\ RootLeq(error_residual_F, alpha_rtol)
       \/ /\ criterion = "alpha_H1"
          /\ RootLeq(error_alpha_H1, alpha_rtol)

\* variant: the loop is not left before a second iteration has run
StopCriterionMetAfterTwo ==
    /\ range_next >= 2
    /\ \/ /\ criterion = "residual_u"
          /\ RootLeq(error_residual_F, alpha_rtol)
       \/ /\ criterion = "alpha_H1"
          /\ RootLeq(error_alpha_H1, alpha_rtol)

\* lines 179-194: the two if statements that can break out of the loop
StopCriterionMet ==
    \/ /\ criterion = "residual_u"
       /\ RootLeq(error_residual_F, alpha_rtol)
    \/ /\ criterion = "alpha_H1"
       /\ RootLeq(error_alpha_H1, alpha_rtol)

StopTestBreak ==
    /\ am_pc = "test"
    /\ StopCriterionMet
    /\ am_pc' = "returned"
    /\ am_oplog' = Append(am_oplog, <<iteration[1], "test">>)
    /\ UNCHANGED <<fields, driver_vars, am_config, alpha_start, alpha_old, data,
                   alpha_diff,
                   range_next, iteration, am_subsolves, am_errors, raised>>

StopTestContinue ==
    /\ am_pc = "test"
    /\ ~StopCriterionMet
    /\ am_pc' = "for"
    /\ am_oplog' = Append(am_oplog, <<iteration[1], "test">>)
    /\ UNCHANGED <<fields, driver_vars, am_config, alpha_start, alpha_old, data,
                   alpha_diff,
                   range_next, iteration, am_subsolves, am_errors, raised>>

\* lines 195-198: building the message reads iteration and error_alpha_H1
RaiseNonConvergence ==
    /\ am_pc = "else"
    /\ am_pc' = "raised"
    /\ raised' =
        IF iteration = <<>>
        THEN [type |-> "UnboundLocalError", name |-> "iteration"]
        ELSE [type |-> "RuntimeError", iteration |-> iteration[1],
              error |-> error_alpha_H1]
    /\ UNCHANGED <<fields, driver_vars, am_config, alpha_start, am_oplog,
                   alpha_old, data, alpha_diff,
                   range_next, iteration, am_subsolves, am_errors>>

Init ==
    /\ u = ZeroNodes
    /\ alpha = ZeroCells
    /\ alpha_lb = ZeroCells
    /\ alpha_ub = OneCells
    /\ pc = "loop"
    /\ loading_min \in LoadingMins
    /\ loading_steps \in 1 .. MaxSteps
    /\ comm_size \in 1 .. MaxRanks
    /\ owner \in [Cells -> Ranks]
    /\ stale = {}
    /\ file_writers = {}
    /\ writes = [r \in Ranks |-> 0]
    /\ collectives = [r \in Ranks |-> <<>>]
    /\ i_t = -1
    /\ t = "unbound"
    /\ is_stable = "unbound"
    /\ is_elastic = "unbound"
    /\ inertia = "unbound"
    /\ stable = "unbound"
    /\ fracture_energy = "unbound"
    /\ elastic_energy = "unbound"
    /\ _F = "unbound"
    /\ stability_data = "unset"
    /\ cone_data = "unset"
    /\ history_data = [col \in Columns |-> <<>>]
    /\ check_stability = <<>>
    /\ time_data = [status |-> "absent", content |-> <<>>]
    /\ xdmf = <<>>
    /\ crashed = FALSE
    /\ oplog = <<>>
    /\ criterion = "alpha_H1"
    /\ alpha_rtol = Rat(3, 4)
    /\ max_it = MaxIt
    /\ Constructed

\* for i_t, t in enumerate(loads): next load, or leave the loop
LoopNext ==
    /\ ~crashed
    /\ pc = "loop"
    /\ i_t + 1 < loading_steps
    /\ i_t' = i_t + 1
    /\ t' = loads(i_t + 1)
    /\ pc' = "homogeneous"
    /\ UNCHANGED <<fields, config, oracle_locals, energy_locals, outputs,
                   crashed, oplog>>
    /\ UNCHANGED mpi_state
    /\ UNCHANGED am_vars

LoopExit ==
    /\ ~crashed
    /\ pc = "loop"
    /\ ~(i_t + 1 < loading_steps)
    /\ pc' = "done"
    /\ UNCHANGED <<fields, config, i_t, t, oracle_locals, energy_locals,
                   outputs, crashed, oplog>>
    /\ UNCHANGED mpi_state
    /\ UNCHANGED am_vars

\* variant: the damage sub-solver is run on the state after it is set
HomogeneousStateThenDamageSolve ==
    /\ ~crashed
    /\ pc = "homogeneous"
    /\ pc' = NextPc("homogeneous")
    /\ oplog' = Append(oplog, <<i_t, "_homogeneous_state">>)
    /\ u' = _homogeneous_state(t).u
    /\ alpha' \in DamageSolutions
    /\ \E o \in SolverOutcomes :
        /\ solver_alpha_it' = o[1]
        /\ solver_alpha_reason' = o[2]
    /\ am_oplog' = Append(am_oplog, <<i_t, "damage">>)
    /\ stale' = (stale \cup {"u"}) \ {"alpha"}
    /\ UNCHANGED <<alpha_lb, alpha_ub, mpi_state, config, i_t, t, oracle_locals,
                   energy_locals, outputs, crashed, am_config, alpha_old, data,
                   am_pc, alpha_diff, range_next, iteration, alpha_start,
                   solver_u_it, solver_u_reason, am_errors, raised>>

HomogeneousState ==
    /\ Step("homogeneous", "_homogeneous_state")
    /\ alpha' = _homogeneous_state(t).alpha
    /\ u' = _homogeneous_state(t).u
    /\ stale' = stale \cup {"alpha", "u"}
    /\ UNCHANGED <<alpha_lb, alpha_ub, mpi_state, config, i_t, t, oracle_locals,
                   energy_locals, outputs, crashed>>

StabilitySolve ==
    /\ Step("stability", "stability.solve")
    /\ \E o \in StabilityOutcomes :
        /\ stability_data' = [stable |-> o.stable, eigs |-> o.eigs,
                              alpha_lb |-> alpha_lb]
        /\ is_stable' = o.stable
        /\ is_elastic' = stability_is_elastic(alpha)
        /\ inertia' = o.inertia
        /\ check_stability' = Append(check_stability, o.stable)
    /\ UNCHANGED <<fields, config, i_t, t, stable, cone_data, energy_locals,
                   history_data, time_data, xdmf, mpi_state, crashed>>

ConeSolve ==
    /\ Step("cone", "cone.my_solve")
    /\ \E o \in ConeOutcomes :
        /\ stable' = o.stable
        /\ cone_data' = o.data
    /\ UNCHANGED <<fields, config, i_t, t, is_stable, is_elastic, inertia,
                   stability_data, energy_locals, outputs, mpi_state, crashed>>

PlotMatrices ==
    /\ Step("plots", "plot_matrix")
    /\ UNCHANGED <<fields, config, i_t, t, oracle_locals, energy_locals,
                   outputs, mpi_state, crashed>>

Energies ==
    /\ Step("energies", "energies")
    /\ fracture_energy' =
        allreduce_sum([r \in Ranks |->
            assemble_scalar_local(damage_energy_density(u, alpha), r)])
    /\ elastic_energy' =
        allreduce_sum([r \in Ranks |->
            assemble_scalar_local(elastic_energy_density_atk(u, alpha), r)])
    /\ _F' = assemble_scalar_local(stress(u, alpha), 0)
    /\ collectives' =
        [r \in Ranks |-> collectives[r] \o EnergyCollectives(r)]
    /\ UNCHANGED <<fields, config, i_t, t, oracle_locals, outputs,
                   file_writers, writes, crashed>>

\* variant: the total energy leaves out the fracture energy
LoadStepRecordElasticOnly ==
    [col \in Columns |->
        CASE col = "load" -> t
          [] col = "fracture_energy" -> fracture_energy
          [] col = "elastic_energy" -> elastic_energy
          [] col = "total_energy" -> elastic_energy
          [] col = "cone_data" -> cone_data
          [] col = "eigs" -> stability_data.eigs
          [] col = "non-bifurcation" -> ~stability_data.stable
          [] col = "cone-stable" -> stable
          [] col = "F" -> _F
          [] col = "alpha_t" -> alpha
          [] col = "u_t" -> u]

\* history_data[...].append(...), lines 520-531
LoadStepRecord ==
    [col \in Columns |->
        CASE col = "load" -> t
          [] col = "fracture_energy" -> fracture_energy
          [] col = "elastic_energy" -> elastic_energy
          [] col = "total_energy" -> RAdd(elastic_energy, fracture_energy)
          [] col = "cone_data" -> cone_data
          [] col = "eigs" -> stability_data.eigs
          [] col = "non-bifurcation" -> ~stability_data.stable
          [] col = "cone-stable" -> stable
          [] col = "F" -> _F
          [] col = "alpha_t" -> alpha
          [] col = "u_t" -> u]

\* variant: the record is inserted at the head of every column
AppendRecordFront ==
    /\ Step("append", "append")
    /\ history_data' =
        [col \in Columns |-> <<LoadStepRecord[col]>> \o history_data[col]]
    /\ UNCHANGED <<fields, config, i_t, t, oracle_locals, energy_locals,
                   check_stability, time_data, xdmf, mpi_state, crashed>>

AppendRecord ==
    /\ Step("append", "append")
    /\ history_data' =
        [col \in Columns |-> Append(history_data[col], LoadStepRecord[col])]
    /\ UNCHANGED <<fields, config, i_t, t, oracle_locals, energy_locals,
                   check_stability, time_data, xdmf, mpi_state, crashed>>

\* file.write_function(u, t); file.write_function(alpha, t)
WriteXDMF ==
    /\ Step("xdmf", "xdmf")
    /\ xdmf' = Append(xdmf, [t |-> t, u |-> u_Unknown, alpha |-> alpha])
    /\ collectives' =
        [r \in Ranks |-> collectives[r] \o XDMFCollectives(r)]
    /\ UNCHANGED <<fields, config, i_t, t, oracle_locals, energy_locals,
                   history_data, check_stability, time_data, file_writers,
                   writes, crashed>>

\* open(f"{prefix}/time_data.json", "w"): the file is truncated
OpenTimeData ==
    /\ Step("open", "open")
    /\ time_data' = [status |-> "empty", content |-> <<>>]
    /\ file_writers' = {r \in Ranks : WritesHistory(r)}
    /\ UNCHANGED <<fields, config, i_t, t, oracle_locals, energy_locals,
                   history_data, check_stability, xdmf, writes, collectives,
                   crashed>>

\* json.dump(history_data, a_file): buffered; a proper prefix is on disk
DumpTimeData ==
    /\ Step("dump", "dump")
    /\ \E st \in {"empty", "partial"} :
        time_data' = [status |-> st, content |-> <<>>]
    /\ UNCHANGED <<fields, config, i_t, t, oracle_locals, energy_locals,
                   history_data, check_stability, xdmf, mpi_state, crashed>>

\* a_file.close(): the whole document is on disk
CloseTimeData ==
    /\ Step("close", "close")
    /\ time_data' = [status |-> "complete", content |-> history_data]
    /\ writes' = [r \in Ranks |->
                    IF r \in file_writers THEN writes[r] + 1 ELSE writes[r]]
    /\ file_writers' = {}
    /\ UNCHANGED <<fields, config, i_t, t, oracle_locals, energy_locals,
                   history_data, check_stability, xdmf, collectives, crashed>>

\* the process is killed between two statements
Crash ==
    /\ ~crashed
    /\ pc \notin {"done", "solve"}
    /\ crashed' = TRUE
    /\ UNCHANGED <<fields, pc, config, i_t, t, oracle_locals, energy_locals,
                   outputs, oplog>>
    /\ UNCHANGED mpi_state
    /\ UNCHANGED am_vars

Next ==
    \/ LoopNext
    \/ LoopExit
    \/ HomogeneousState
    \/ StabilitySolve
    \/ ConeSolve
    \/ PlotMatrices
    \/ Energies
    \/ AppendRecord
    \/ WriteXDMF
    \/ OpenTimeData
    \/ DumpTimeData
    \/ CloseTimeData
    \/ Crash

Spec == Init /\ [][Next]_vars

\* solve() called once on a freshly constructed solver, for any admissible
\* damage field in the state and any damage_elasticity options
InitAM ==
    /\ u = ZeroNodes
    /\ alpha \in [Cells -> AlphaLevels]
    /\ alpha_lb = ZeroCells
    /\ alpha_ub = OneCells
    /\ pc = "solve"
    /\ loading_min = Zero
    /\ loading_steps = 1
    /\ comm_size = 1
    /\ owner = [c \in Cells |-> 0]
    /\ stale = {}
    /\ file_writers = {}
    /\ writes = [r \in Ranks |-> 0]
    /\ collectives = [r \in Ranks |-> <<>>]
    /\ i_t = -1
    /\ t = "unbound"
    /\ is_stable = "unbound"
    /\ is_elastic = "unbound"
    /\ inertia = "unbound"
    /\ stable = "unbound"
    /\ fracture_energy = "unbound"
    /\ elastic_energy = "unbound"
    /\ _F = "unbound"
    /\ stability_data = "unset"
    /\ cone_data = "unset"
    /\ history_data = [col \in Columns |-> <<>>]
    /\ check_stability = <<>>
    /\ time_data = [status |-> "absent", content |-> <<>>]
    /\ xdmf = <<>>
    /\ crashed = FALSE
    /\ oplog = <<>>
    /\ criterion \in Criteria
    /\ alpha_rtol \in AlphaRtols
    /\ max_it \in 0 .. MaxIt
    /\ Constructed

NextAM ==
    \/ SolveBegin
    \/ ForNext
    \/ ForExhausted
    \/ ElasticSolve
    \/ DamageSolve
    \/ ComputeIncrement
    \/ GhostUpdateIncrement
    \/ ComputeErrors
    \/ UpdateAlphaOld
    \/ RecordIteration
    \/ StopTestBreak
    \/ StopTestContinue
    \/ RaiseNonConvergence

SpecAM == InitAM /\ [][NextAM]_vars

\* either a run of the driver or a call of solve()
SpecBoth == (Init \/ InitAM) /\ [][Next \/ NextAM]_vars

(***************************************************************************)
(* Properties of _AlternateMinimisation.solve().                           *)
(***************************************************************************)
\* the stopping metric that criterion selects, in row j of self.data
SelectedMet(j) ==
    \/ /\ criterion = "residual_u"
       /\ RootLeq(data["error_residual_F"][j], alpha_rtol)
    \/ /\ criterion = "alpha_H1"
       /\ RootLeq(data["error_alpha_H1"][j], alpha_rtol)

Rows == IF am_pc = "constructed" THEN 0 ELSE Len(data["iteration"])

\* C1: when solve() has returned, the metric selected by criterion, as
\* computed in the last iteration, is <= alpha_rtol; and whenever the loop
\* went on after an iteration, the selected metric of that iteration was
\* above alpha_rtol, whatever the other metrics were.
C1_StoppingCriterion ==
    /\ am_pc = "returned" =>
         /\ Rows >= 1
         /\ criterion \in {"residual_u", "alpha_H1"}
         /\ criterion = "residual_u" =>
              RootLeq(data["error_residual_F"][Rows], alpha_rtol)
         /\ criterion = "alpha_H1" =>
              RootLeq(data["error_alpha_H1"][Rows], alpha_rtol)
    /\ (am_pc \in {"for", "else", "raised"} /\ Rows >= 1) =>
         /\ criterion = "residual_u" =>
              ~RootLeq(data["error_residual_F"][Rows], alpha_rtol)
         /\ criterion = "alpha_H1" =>
              ~RootLeq(data["error_alpha_H1"][Rows], alpha_rtol)

\* solve() returned on the residual although the H1 and L2 errors and the
\* maximum of the increment are above the tolerance
C1_Witness ==
    /\ am_pc = "returned"
    /\ criterion = "residual_u"
    /\ RootLeq(data["error_residual_F"][Rows], alpha_rtol)
    /\ ~RootLeq(data["error_alpha_H1"][Rows], alpha_rtol)
    /\ ~RootLeq(data["error_alpha_L2"][Rows], alpha_rtol)
    /\ RLt(alpha_rtol, data["error_alpha_max"][Rows])

\* C2: when no iteration satisfies the selected criterion, solve() ends
\* with the RuntimeError of the else clause, self.data then holds exactly
\* max_it rows, and solve() does not return.
C2_IterationCapFatal ==
    /\ am_pc = "raised" =>
         /\ raised.type = "RuntimeError"
         /\ Rows = max_it
    /\ (am_pc = "returned") => \E j \in 1 .. Rows : SelectedMet(j)
    /\ (am_pc = "else") => (Rows = max_it /\ \A j \in 1 .. Rows : ~SelectedMet(j))

(***************************************************************************)
(* Properties of the load-stepping driver.                                 *)
(***************************************************************************)
Last(sq) == sq[Len(sq)]

IsPrefix(a, b) == Len(a) <= Len(b) /\ SubSeq(b, 1, Len(a)) = a

\* C3: after a whole load sequence every column of history_data has as many
\* entries as there are loads and the j-th load entry is the j-th load; every
\* step of the run either leaves history_data alone or appends one entry to
\* the end of every column (earlier entries keep their value and position).
C3_HistoryAppendOnly ==
    [][/\ \/ history_data' = history_data
          \/ \A col \in Columns :
                /\ Len(history_data'[col]) = Len(history_data[col]) + 1
                /\ IsPrefix(history_data[col], history_data'[col])
       /\ pc' = "done" =>
            \A col \in Columns :
                /\ Len(history_data'[col]) = loading_steps
                /\ \A j \in 1 .. loading_steps :
                     history_data'["load"][j] =
                        linspace(loading_min, loading_max, loading_steps, j - 1)
      ]_vars

C3_Witness ==
    /\ pc = "done"
    /\ Len(history_data["load"]) >= 3
    /\ \A j \in 1 .. Len(history_data["load"]) - 1 :
         RLt(history_data["load"][j], history_data["load"][j + 1])

\* number of load steps whose body has run to its end
StepsCompleted == IF pc \in {"loop", "done"} THEN i_t + 1 ELSE i_t

\* C4: once step i has completed, a crash at any later instant (also while
\* step i+1 writes the file) leaves on disk a complete history document that
\* holds the records of steps 1..i.
C4_CrashKeepsCompletedSteps ==
    (crashed /\ StepsCompleted >= 1) =>
        /\ time_data.status = "complete"
        /\ \A col \in Columns :
             /\ Len(time_data.content[col]) >= StepsCompleted
             /\ SubSeq(time_data.content[col], 1, StepsCompleted) =
                SubSeq(history_data[col], 1, StepsCompleted)

InBounds(al) ==
    \A c \in Cells : RLeq(alpha_lb[c], al[c]) /\ RLeq(al[c], alpha_ub[c])

\* C5: alpha_lb <= alpha <= alpha_ub holds in every cell for the state the
\* driver hands to the oracles and records (alpha_lb = 0, alpha_ub = 1,
\* loads from loading.min up to k), and after the damage solve of every
\* iteration of solve() when the damage sub-solver respects its bounds.
C5_DamageWithinBounds ==
    /\ alpha_lb = ZeroCells
    /\ alpha_ub = OneCells
    /\ pc \in {"stability", "cone", "plots", "energies", "append", "xdmf",
               "open", "dump", "close"} => InBounds(alpha)
    /\ \A j \in 1 .. Len(history_data["alpha_t"]) :
         InBounds(history_data["alpha_t"][j])
    /\ am_pc \in {"increment", "ghost", "errors", "alpha_old", "record",
                  "test", "returned"} => InBounds(alpha)

\* the last load k is handed to the oracles with the damage at its upper bound
C5_Witness ==
    /\ pc = "stability"
    /\ t = RInt(k)
    /\ i_t >= 1
    /\ alpha = alpha_ub
    /\ RLt(Zero, Last(history_data["alpha_t"])[0])

\* C6: with N = 2, k = 4, w1 = 2, mu = 1 the critical load is 1; the state
\* set for load t has damage 0 in every cell when t <= 1 and (t - 1) / 3
\* when t > 1, and displacement i * t / 2 at node i; t = 1/2 gives
\* [0, 1/4, 1/2], t = 2 gives damage 1/3 and [0, 1, 2].
C6_ClosedForm ==
    /\ _critical_load = RInt(1)
    /\ pc \in {"stability", "cone", "plots", "energies", "append"} =>
        /\ RLeq(t, RInt(1)) => \A c \in Cells : alpha[c] = RInt(0)
        /\ RLt(RInt(1), t) =>
             \A c \in Cells : alpha[c] = RDiv(RSub(t, RInt(1)), RInt(3))
        /\ \A i \in Nodes : u[i] = RDiv(RMul(RInt(i), t), RInt(2))
        /\ t = Rat(1, 2) =>
             /\ alpha = [c \in Cells |-> RInt(0)]
             /\ u = [i \in Nodes |->
                       CASE i = 0 -> RInt(0) [] i = 1 -> Rat(1, 4)
                         [] i = 2 -> Rat(1, 2)]
        /\ t = RInt(2) =>
             /\ alpha = [c \in Cells |-> Rat(1, 3)]
             /\ u = [i \in Nodes |-> RInt(i)]

C6_Witness ==
    /\ pc = "stability"
    /\ t = RInt(2)
    /\ alpha[0] = Rat(1, 3)
    /\ u[2] = RInt(2)

\* C7: in every record of history_data the total energy is the sum of the
\* elastic and the fracture energy of the same record, and both are the
\* energies of the state (u_t, alpha_t) stored in that record.
C7_EnergyAccounting ==
    \A j \in 1 .. Len(history_data["total_energy"]) :
        /\ history_data["total_energy"][j] =
             RAdd(history_data["elastic_energy"][j],
                  history_data["fracture_energy"][j])
        /\ history_data["elastic_energy"][j] =
             assemble_scalar(elastic_energy_density_atk(
                 history_data["u_t"][j], history_data["alpha_t"][j]))
        /\ history_data["fracture_energy"][j] =
             assemble_scalar(damage_energy_density(
                 history_data["u_t"][j], history_data["alpha_t"][j]))

C7_Witness ==
    /\ Len(history_data["total_energy"]) >= 2
    /\ RLt(Zero, Last(history_data["fracture_energy"]))
    /\ RLt(Zero, Last(history_data["elastic_energy"]))

\* C8: the record appended for a load step stores the verdict of
\* stability.solve as its stability flag, the verdict of cone.my_solve as
\* its cone-stability flag, both unchanged, and the inertia.
C8_VerdictsRecordedFaithfully ==
    pc = "xdmf" =>
        /\ Last(history_data["non-bifurcation"]) = is_stable
        /\ Last(history_data["cone-stable"]) = stable
        /\ "inertia" \in Columns

\* C9: the lower bound handed to the two oracles at step i+1 is pointwise
\* >= the damage recorded at step i (and never below its initial value).
C9_Irreversibility ==
    (pc \in {"stability", "cone"} /\ Len(history_data["alpha_t"]) >= 1) =>
        \A c \in Cells :
            /\ RLeq(Last(history_data["alpha_t"])[c], alpha_lb[c])
            /\ RLeq(Zero, alpha_lb[c])

\* the operations of one load step, in order
StepOps ==
    <<"_homogeneous_state", "stability.solve", "cone.my_solve", "plot_matrix",
      "energies", "append", "xdmf", "open", "dump", "close">>

\* C10: the operations performed so far are, load index by load index in
\* ascending order, the operations of a load step in their fixed order, each
\* once; when a step begins the history of all earlier steps is on disk.
C10_StepOrder ==
    /\ \A j \in 1 .. Len(oplog) :
         /\ oplog[j][1] = (j - 1) \div Len(StepOps)
         /\ oplog[j][2] = StepOps[((j - 1) % Len(StepOps)) + 1]
    /\ pc = "done" => Len(oplog) = loading_steps * Len(StepOps)
    /\ (pc \in {"loop", "done", "homogeneous"} /\ StepsCompleted >= 1) =>
         /\ time_data.status = "complete"
         /\ time_data.content = history_data
         /\ Len(history_data["load"]) = StepsCompleted
         /\ Len(oplog) = StepsCompleted * Len(StepOps)

C10_Witness ==
    /\ pc = "done"
    /\ ~crashed
    /\ Len(oplog) = 3 * Len(StepOps)
    /\ time_data.content = history_data

\* the program counters of a load step at which the state has been set
AfterHomogeneousState ==
    {"stability", "cone", "plots", "energies", "append", "xdmf", "open",
     "dump", "close"}

\* C11: during a whole run of discrete_atk neither solve() nor one of its
\* sub-solvers is invoked, and the state the oracles are called on and the
\* state recorded at load index i are the output of _homogeneous_state for
\* the load t_i.
C11_DriverBypassesAlternateMinimisation ==
    /\ am_pc = "constructed"
    /\ am_oplog = <<>>
    /\ Rows = 0
    /\ pc \in AfterHomogeneousState =>
         /\ t = loads(i_t)
         /\ alpha = _homogeneous_state(loads(i_t)).alpha
         /\ u = _homogeneous_state(loads(i_t)).u
    /\ \A j \in 1 .. Len(history_data["load"]) :
         /\ history_data["load"][j] = loads(j - 1)
         /\ history_data["alpha_t"][j] = _homogeneous_state(loads(j - 1)).alpha
         /\ history_data["u_t"][j] = _homogeneous_state(loads(j - 1)).u

\* a run of three load steps ended with damage in the last record
C11_Witness ==
    /\ pc = "done"
    /\ am_pc = "constructed"
    /\ Len(history_data["alpha_t"]) = 3
    /\ history_data["alpha_t"][3] = [c \in Cells |-> One]
    /\ history_data["alpha_t"][3] = _homogeneous_state(loading_max).alpha

\* C12: when solve() ends with the RuntimeError of the iteration cap, the
\* error names a number of iterations equal to the number of iterations
\* performed, max_it, and the H1 error of the last iteration performed.
C12_FailureCarriesCountAndError ==
    (am_pc = "raised" /\ raised.type = "RuntimeError") =>
        /\ raised.iteration = Rows
        /\ raised.iteration = max_it
        /\ raised.error = data["error_alpha_H1"][Rows]

\* the statements of one iteration of solve(), in order
AMStepOps ==
    <<"elastic", "damage", "increment", "ghost", "errors", "alpha_old",
      "record", "test">>

\* C13: a call of solve() performs at most max_it iterations of eight
\* statements each, for every max_it >= 0 and every criterion; it ends either
\* by returning or, when max_it iterations have run without the criterion
\* being met, with the non-convergence RuntimeError, never both.
C13_TerminatesInOneOutcome ==
    /\ range_next <= max_it
    /\ Rows <= max_it
    /\ Len(am_oplog) <= max_it * Len(AMStepOps)
    /\ am_pc \in {"returned", "raised"} =>
         Len(am_oplog) = Rows * Len(AMStepOps)
    /\ am_pc = "returned" => Rows >= 1
    /\ am_pc \in {"else", "raised"} => Rows = max_it
    /\ am_pc = "raised" => raised.type = "RuntimeError"

\* C14: the reason codes and iteration counts of the two sub-solvers are
\* written to the row of their iteration and are not read again: the
\* metrics are computed from the fields only, and the stopping test leaves
\* the loop exactly when the selected metric of the row just recorded is
\* <= alpha_rtol, whatever the reason codes are. The number of iterations
\* and the outcome are thus the same for runs that differ in them only.
C14_ReasonCodesNotControl ==
    [][/\ am_pc = "record" =>
            /\ Last(data'["solver_u_reason"]) = solver_u_reason
            /\ Last(data'["solver_u_it"]) = solver_u_it
            /\ Last(data'["solver_alpha_reason"]) = solver_alpha_reason
            /\ Last(data'["solver_alpha_it"]) = solver_alpha_it
       /\ am_pc = "errors" =>
            /\ error_alpha_H1' = norm_H1(alpha_diff)
            /\ error_alpha_L2' = norm_L2(alpha_diff)
            /\ error_residual_F' = Root(Dot(residual_with_bc(u, alpha), 0, N))
       /\ am_pc = "test" =>
            /\ (am_pc' = "returned") = SelectedMet(Rows)
            /\ (am_pc' = "for") = ~SelectedMet(Rows)
            /\ UNCHANGED <<data, range_next, max_it>>
       /\ am_pc = "for" =>
            /\ (am_pc' = "elastic") = (range_next < max_it)
            /\ (am_pc' = "else") = (range_next >= max_it)]_vars

\* solve() returned after an iteration in which both sub-solvers diverged
C14_Witness ==
    /\ am_pc = "returned"
    /\ Last(data["solver_u_reason"]) < 0
    /\ Last(data["solver_alpha_reason"]) < 0
    /\ SelectedMet(Rows)

\* C15: the statements of solve() executed so far are, iteration by
\* iteration, the elastic solve, the damage solve, the increment, its ghost
\* update, the norms, the update of alpha_old, the record and the stopping
\* test, in this order and each once; the norms are those of the
\* ghost-updated increment, and the stopping test runs with alpha_old
\* updated and the row of the iteration appended.
C15_IterationStatementOrder ==
    /\ \A j \in 1 .. Len(am_oplog) :
         /\ am_oplog[j][1] = (j - 1) \div Len(AMStepOps)
         /\ am_oplog[j][2] = AMStepOps[((j - 1) % Len(AMStepOps)) + 1]
    /\ am_pc = "errors" => "alpha_diff" \notin stale
    /\ am_pc \in {"alpha_old", "record", "test"} =>
         /\ "alpha_diff" \notin stale
         /\ error_alpha_H1 = norm_H1(alpha_diff)
         /\ error_alpha_L2 = norm_L2(alpha_diff)
         /\ error_alpha_max = VecMax(alpha_diff, N - 1)
    /\ am_pc = "test" =>
         /\ alpha_old = alpha
         /\ "alpha_old" \notin stale
         /\ Rows = iteration[1] + 1
         /\ Len(am_oplog) = Rows * Len(AMStepOps) - 1

\* solve() returned after two iterations of eight statements
C15_Witness ==
    /\ am_pc = "returned"
    /\ Rows = 2
    /\ Len(am_oplog) = 2 * Len(AMStepOps)
    /\ am_oplog[Len(AMStepOps) + 1] = <<1, "elastic">>

\* C16: in every iteration of solve(), the first one included, the
\* increment whose norms are recorded and tested is the damage field after
\* the damage solve of the iteration minus the damage field before it:
\* alpha_old holds the damage field the iteration started from, also when
\* alpha is not zero when solve() is called.
C16_IncrementFromIterationStart ==
    /\ am_pc \in {"elastic", "damage"} => alpha_old = alpha
    /\ am_pc \in {"ghost", "errors", "alpha_old"} =>
         alpha_diff = [c \in Cells |-> RSub(alpha[c], alpha_start[c])]

\* the number of times statement op of solve() has been executed
Executed(op) ==
    Cardinality({j \in 1 .. Len(am_oplog) : am_oplog[j][2] = op})

\* C17: when solve() has returned after k iterations, every column of
\* self.data holds k entries, the iteration column is 0 .. k-1, the
\* selected metric is above alpha_rtol in the rows before the last and
\* <= alpha_rtol in the last, and each sub-solver has been invoked k times,
\* the last statement executed being the stopping test of iteration k-1.
C17_StopsAtFirstSatisfyingIteration ==
    am_pc = "returned" =>
        /\ Rows >= 1
        /\ Rows = range_next
        /\ \A col \in DataColumns : Len(data[col]) = Rows
        /\ \A j \in 1 .. Rows : data["iteration"][j] = j - 1
        /\ \A j \in 1 .. (Rows - 1) : ~SelectedMet(j)
        /\ SelectedMet(Rows)
        /\ Executed("elastic") = Rows
        /\ Executed("damage") = Rows
        /\ Last(am_oplog) = <<Rows - 1, "test">>

\* solve() returned in the second iteration, the first not satisfying
C17_Witness ==
    /\ am_pc = "returned"
    /\ Rows = 2
    /\ data["iteration"] = <<0, 1>>
    /\ ~SelectedMet(1)
    /\ SelectedMet(2)
    /\ Executed("damage") = 2

\* the program counters of a load step whose statement reads u or alpha
ReadsState == {"stability", "cone", "energies", "append", "xdmf"}

\* C18: whenever a statement of a load step reads u or alpha (the
\* stability solve, the cone solve, the energy integrals, the record, the
\* snapshot), the field has been ghost-updated since it was last written in
\* place, the write by _homogeneous_state included.
C18_GhostUpdateBeforeRead ==
    pc \in ReadsState => stale \cap {"u", "alpha"} = {}

\* C19: in every record of history_data the elastic energy, the fracture
\* energy and the reaction force F are the integrals over the whole domain
\* for the state of the record, that is the sum over all processes of
\* their local integrals, however the cells are distributed.
C19_RecordedScalarsAreGlobal ==
    \A j \in 1 .. Len(history_data["F"]) :
        LET uu == history_data["u_t"][j]
            al == history_data["alpha_t"][j]
        IN  /\ history_data["elastic_energy"][j] =
                 allreduce_sum([r \in Ranks |->
                     assemble_scalar_local(elastic_energy_density_atk(uu, al), r)])
            /\ history_data["fracture_energy"][j] =
                 allreduce_sum([r \in Ranks |->
                     assemble_scalar_local(damage_energy_density(uu, al), r)])
            /\ history_data["F"][j] =
                 allreduce_sum([r \in Ranks |->
                     assemble_scalar_local(stress(uu, al), r)])
            /\ history_data["F"][j] = assemble_scalar(stress(uu, al))

\* the number of times operation op of a load step has been performed
Performed(op) ==
    Cardinality({j \in 1 .. Len(oplog) : oplog[j][2] = op})

\* C20: time_data.json is opened for writing by rank 0 and by no other
\* process, so at most one process has it open, and it is rank 0 that writes
\* it once in every load step; every process has entered the same
\* sequence of collective operations, two reductions for each energy
\* statement performed.
C20_SingleWriterSameCollectives ==
    /\ file_writers \subseteq {0}
    /\ Cardinality(file_writers) <= 1
    /\ (pc \in {"dump", "close"}) => file_writers = {0}
    /\ \A r \in Ranks :
         /\ writes[r] = IF r = 0 THEN Performed("close") ELSE 0
         /\ collectives[r] = collectives[0]
         /\ Len(collectives[r]) =
              Performed("energies") * Len(EnergyCollectives(r))
              + Performed("xdmf") * Len(XDMFCollectives(r))
         /\ Cardinality({j \in 1 .. Len(collectives[r]) :
                collectives[r][j] \in
                    {"allreduce fracture_energy", "allreduce elastic_energy"}})
              = 2 * Performed("energies")

\* two processes in the second load step, rank 0 alone holding the file
C20_Witness ==
    /\ comm_size = 2
    /\ pc = "dump"
    /\ i_t = 1
    /\ file_writers = {0}
    /\ writes = [r \in Ranks |-> IF r = 0 THEN 1 ELSE 0]
    /\ Len(collectives[1]) = 10

\* C21: over the ascending loads of a run the damage recorded in alpha_t
\* does not decrease in any cell from one record to the next, it is zero in
\* every record whose load is at most the critical load 1, and the
\* displacement recorded in u_t is 0 at the first node and the load at the
\* last node.
C21_RecordedStateMonotone ==
    \A j \in 1 .. Len(history_data["alpha_t"]) :
        /\ (j >= 2 /\ RLeq(history_data["load"][j - 1],
                            history_data["load"][j])) =>
             \A c \in Cells :
                 RLeq(history_data["alpha_t"][j - 1][c],
                      history_data["alpha_t"][j][c])
        /\ RLeq(history_data["load"][j], RInt(1)) =>
             \A c \in Cells : history_data["alpha_t"][j][c] = RInt(0)
        /\ history_data["u_t"][j][0] = RInt(0)
        /\ history_data["u_t"][j][N] = history_data["load"][j]

\* three records with loads 0, 2, 4: no damage, then damage 1/3, then 1
C21_Witness ==
    /\ Len(history_data["alpha_t"]) = 3
    /\ history_data["load"] = <<RInt(0), RInt(2), RInt(4)>>
    /\ history_data["alpha_t"][1][0] = RInt(0)
    /\ RLt(history_data["alpha_t"][2][0], history_data["alpha_t"][3][0])
    /\ history_data["u_t"][3][N] = RInt(4)
    /\ history_data["u_t"][3][0] = RInt(0)

====
